---- MODULE Spec2Model ----
(***************************************************************************)
(* Model of src/vanilla_sgr/schema_demo.py: the in-memory store DB, the    *)
(* pydantic action schemas, dispatch() and the execute_tasks() loop.       *)
(*                                                                         *)
(* Python values are modelled structurally:                                *)
(*   - a dict with fixed keys is a record, a list is a sequence;           *)
(*   - DB["invoices"], an insertion-ordered dict keyed by computed         *)
(*     strings, is a sequence of <<key, value>> pairs (DictGet, DictSet);  *)
(*   - a Python return value is tagged with its type, [type |-> "str"] or  *)
(*     [type |-> "dict"], because dispatch returns either;                 *)
(*   - money: prices are whole numbers; discount_amount, which round(.,2)  *)
(*     keeps to two decimals, is held in hundredths.                       *)
(***************************************************************************)
EXTENDS Integers, Sequences, FiniteSets, TLC

VARIABLES
    DB,          \* the module-level store: rules, invoices, emails, products
    taskIdx,     \* number of TEST_TASKS entries the outer loop has taken
    i,           \* the inner loop variable of execute_tasks (0-based)
    pc,          \* position of execute_tasks
    log,         \* the conversation log of the current run
    job,         \* the NextStep decoded last (None before)
    result,      \* the value dispatch returned last (None before)
    runState,    \* how the current run stands
    summary,     \* what the completion branch printed for the current run
    calls,       \* chat_completion calls made in the current run
    dispatches,  \* dispatch calls made in the current run
    issued,      \* ids of the invoices dispatch returned, in issue order
    response_content,  \* the content of the last completion (None before)
    rejected,    \* json.loads or model_validate raised on response_content
    threads      \* the locals of each thread inside dispatch (SpecConcurrent)

vars == <<DB, taskIdx, i, pc, log, job, result, runState, summary, calls,
          dispatches, issued, response_content, rejected, threads>>

runnerVars == <<taskIdx, i, pc, log, runState, summary, calls, dispatches>>

(***************************************************************************)
(* Bounds of the model.                                                    *)
(***************************************************************************)
MaxInvoices == 2   \* invoices the oracle may have issued
MaxRules == 1      \* rules the oracle may have created
MaxEmails == 1     \* emails the oracle may have sent
FreeSteps == 1     \* steps of a run at which the oracle answers freely

(***************************************************************************)
(* Program constants.                                                      *)
(***************************************************************************)
MaxSteps == 20          \* for i in range(20)
MaxDiscount == 50       \* Le(50)
PlanMinLen == 1         \* MinLen(1)
PlanMaxLen == 5         \* MaxLen(5)

None == [type |-> "None"]

Products ==
    [sku \in {"SKU-205", "SKU-210", "SKU-220"} |->
        CASE sku = "SKU-205" -> [name |-> "AGI course 101 Personal", price |-> 258]
          [] sku = "SKU-210" -> [name |-> "AGI 101 Course Team", price |-> 1290]
          [] sku = "SKU-220" -> [name |-> "Building AGI - Online Excercises", price |-> 315]]

InitDB == [rules |-> <<>>, invoices |-> <<>>, emails |-> <<>>, products |-> Products]

(***************************************************************************)
(* Python dict operations on a sequence of <<key, value>> pairs.           *)
(***************************************************************************)
DictKeys(d) == {d[n][1] : n \in 1..Len(d)}

\* d.get(k): the value stored under k, None when there is none
DictGet(d, k) ==
    IF k \in DictKeys(d)
    THEN d[CHOOSE n \in 1..Len(d) : d[n][1] = k][2]
    ELSE None

\* d[k] = v: replaces the value of an existing key in place, else appends
DictSet(d, k, v) ==
    IF k \in DictKeys(d)
    THEN [n \in 1..Len(d) |-> IF d[n][1] = k THEN <<k, v>> ELSE d[n]]
    ELSE Append(d, <<k, v>>)

\* the catalog lookup DB["products"].get(sku)
ProductGet(db, sku) ==
    IF sku \in DOMAIN db.products THEN db.products[sku] ELSE None

\* [x for x in s if Test(x)]
RECURSIVE FilterSeq(_, _)
FilterSeq(s, keep) ==
    IF s = <<>> THEN <<>>
    ELSE (IF keep[1] THEN <<Head(s)>> ELSE <<>>) \o FilterSeq(Tail(s), Tail(keep))

(***************************************************************************)
(* Formatting and arithmetic of dispatch.                                  *)
(***************************************************************************)
\* a variant that numbers by the invoices that are not void
InvoiceIdActive(db) ==
    "INV-" \o ToString(Cardinality({n \in 1..Len(db.invoices) :
                                        ~db.invoices[n][2].void}) + 1)

\* f"INV-{len(DB['invoices']) + 1}"
InvoiceId(db) == "INV-" \o ToString(Len(db.invoices) + 1)

\* f"Product {sku} not found" and f"Invoice {id} not found"
ProductNotFound(sku) == [type |-> "str", text |-> "Product " \o sku \o " not found"]
InvoiceNotFound(id) == [type |-> "str", text |-> "Invoice " \o id \o " not found"]

\* round(num / den, 2) in hundredths, ties to even as Python's round
RoundHundredths(num, den) ==
    LET scaled == num * 100
        q == scaled \div den
        r == scaled % den
    IN  IF 2 * r < den THEN q
        ELSE IF 2 * r > den THEN q + 1
        ELSE IF q % 2 = 0 THEN q ELSE q + 1

\* round(total * 1.0 * discount_percent / 100.0, 2)
Discount(total, percent) == RoundHundredths(total * percent, 100)

\* a variant that finds the last such sku
FirstMissingLast(db, skus) ==
    IF \E n \in 1..Len(skus) : ProductGet(db, skus[n]) = None
    THEN CHOOSE n \in 1..Len(skus) :
            /\ ProductGet(db, skus[n]) = None
            /\ \A m \in (n + 1)..Len(skus) : ProductGet(db, skus[m]) # None
    ELSE 0

\* the index of the first sku of the list that the catalog lacks, 0 if none
FirstMissing(db, skus) ==
    IF \E n \in 1..Len(skus) : ProductGet(db, skus[n]) = None
    THEN CHOOSE n \in 1..Len(skus) :
            /\ ProductGet(db, skus[n]) = None
            /\ \A m \in 1..(n - 1) : ProductGet(db, skus[m]) # None
    ELSE 0

\* a variant that adds the price of each distinct sku once
SumPricesDistinct(db, skus) ==
    LET RECURSIVE SumSet(_)
        SumSet(S) ==
            IF S = {} THEN 0
            ELSE LET sku == CHOOSE x \in S : TRUE
                 IN  ProductGet(db, sku).price + SumSet(S \ {sku})
    IN  SumSet({skus[n] : n \in 1..Len(skus)})

\* total after the loop over cmd.skus has added every price
RECURSIVE SumPrices(_, _)
SumPrices(db, skus) ==
    IF skus = <<>> THEN 0
    ELSE ProductGet(db, Head(skus)).price + SumPrices(db, Tail(skus))

(***************************************************************************)
(* The action schemas (pydantic models) and NextStep.                      *)
(***************************************************************************)
Tools ==
    {"report_completion", "cancel_invoice", "issue_invoice",
     "get_customer_data", "send_email", "remember"}

\* the declared fields of the class whose tool literal is t
Fields(t) ==
    CASE t = "send_email" -> {"tool", "subject", "message", "files", "recipient_email"}
      [] t = "get_customer_data" -> {"tool", "email"}
      [] t = "issue_invoice" -> {"tool", "email", "skus", "discount_percent"}
      [] t = "cancel_invoice" -> {"tool", "invoice_id", "reason"}
      [] t = "remember" -> {"tool", "email", "rule"}
      [] t = "report_completion" -> {"tool", "completed_steps_laconic", "code"}

\* discount_percent: Annotated[int, Le(50)]
DiscountOk(percent) == percent <= MaxDiscount

\* f validates against one member of the Union of NextStep.function
ValidFunction(f) ==
    /\ "tool" \in DOMAIN f
    /\ f.tool \in Tools
    /\ Fields(f.tool) \subseteq DOMAIN f
    /\ f.tool = "issue_invoice" => DiscountOk(f.discount_percent)
    /\ f.tool = "report_completion" => f.code \in {"completed", "failed"}

\* the model instance built from f: the declared fields, nothing else
DecodeFunction(f) == [k \in Fields(f.tool) |-> f[k]]

NextStepFields ==
    {"current_task", "plan_remaining_steps_brief", "task_completed", "function"}

\* json.loads(content) succeeds
JsonLoads(content) == content.json

\* NextStep.model_validate(job_dict) succeeds
ValidNextStep(d) ==
    /\ NextStepFields \subseteq DOMAIN d
    /\ Len(d.plan_remaining_steps_brief) >= PlanMinLen
    /\ Len(d.plan_remaining_steps_brief) <= PlanMaxLen
    /\ ValidFunction(d.function)

(***************************************************************************)
(* dispatch(cmd) against the store db: the store it leaves and the value   *)
(* it returns.                                                             *)
(***************************************************************************)
SendEmailCase(db, cmd) ==
    LET email == [to |-> cmd.recipient_email, subject |-> cmd.subject,
                  message |-> cmd.message]
    IN  [db |-> [db EXCEPT !.emails = Append(@, email)],
         result |-> [type |-> "dict", value |-> email]]

CreateRuleCase(db, cmd) ==
    LET rule == [email |-> cmd.email, rule |-> cmd.rule]
    IN  [db |-> [db EXCEPT !.rules = Append(@, rule)],
         result |-> [type |-> "dict", value |-> rule]]

\* a variant that compares addresses without regard to case
GetCustomerDataCaseFolded(db, cmd) ==
    LET Fold(e) == IF e = "Sama@openai.com" THEN "sama@openai.com" ELSE e
        addr == Fold(cmd.email)
    IN  [db |-> db,
         result |-> [type |-> "dict", value |->
            [rules |-> FilterSeq(db.rules,
                [n \in 1..Len(db.rules) |-> Fold(db.rules[n].email) = addr]),
             invoices |-> FilterSeq(db.invoices,
                [n \in 1..Len(db.invoices) |-> Fold(db.invoices[n][2].email) = addr]),
             emails |-> FilterSeq(db.emails,
                [n \in 1..Len(db.emails) |-> Fold(db.emails[n].to) = addr])]]]

GetCustomerDataCase(db, cmd) ==
    LET addr == cmd.email
    IN  [db |-> db,
         result |-> [type |-> "dict", value |->
            [rules |-> FilterSeq(db.rules,
                [n \in 1..Len(db.rules) |-> db.rules[n].email = addr]),
             invoices |-> FilterSeq(db.invoices,
                [n \in 1..Len(db.invoices) |-> db.invoices[n][2].email = addr]),
             emails |-> FilterSeq(db.emails,
                [n \in 1..Len(db.emails) |-> db.emails[n].to = addr])]]]

\* the dict dispatch builds for an invoice under invoice_id
NewInvoice(db, cmd, invoice_id) ==
    LET total == SumPrices(db, cmd.skus)
    IN  [id |-> invoice_id,
         email |-> cmd.email,
         file |-> "/invoices" \o invoice_id \o ".pdf",
         skus |-> cmd.skus,
         discount_amount |-> Discount(total, cmd.discount_percent),
         discount_percent |-> cmd.discount_percent,
         total |-> total,
         void |-> FALSE]

\* a variant that also records a notification email for the new invoice
IssueInvoiceCaseEmailing(db, cmd) ==
    LET missing == FirstMissing(db, cmd.skus)
    IN  IF missing # 0
        THEN [db |-> db, result |-> ProductNotFound(cmd.skus[missing])]
        ELSE LET invoice_id == InvoiceId(db)
                 invoice == NewInvoice(db, cmd, invoice_id)
             IN  [db |-> [db EXCEPT !.invoices = DictSet(@, invoice_id, invoice),
                                    !.emails = Append(@, [to |-> cmd.email,
                                                          subject |-> invoice_id])],
                  result |-> [type |-> "dict", value |-> invoice]]

IssueInvoiceCase(db, cmd) ==
    LET missing == FirstMissing(db, cmd.skus)
    IN  IF missing # 0
        THEN [db |-> db, result |-> ProductNotFound(cmd.skus[missing])]
        ELSE LET invoice_id == InvoiceId(db)
                 invoice == NewInvoice(db, cmd, invoice_id)
             IN  [db |-> [db EXCEPT !.invoices = DictSet(@, invoice_id, invoice)],
                  result |-> [type |-> "dict", value |-> invoice]]

\* a variant that cancels by deleting the stored invoice
CancelInvoiceCaseDelete(db, cmd) ==
    LET invoice == DictGet(db.invoices, cmd.invoice_id)
    IN  IF invoice = None
        THEN [db |-> db, result |-> InvoiceNotFound(cmd.invoice_id)]
        ELSE [db |-> [db EXCEPT !.invoices =
                        FilterSeq(@, [n \in 1..Len(@) |-> @[n][1] # cmd.invoice_id])],
              result |-> [type |-> "dict", value |-> [invoice EXCEPT !.void = TRUE]]]

\* a variant that sets the flag on a copy of the stored invoice
CancelInvoiceCaseCopy(db, cmd) ==
    LET invoice == DictGet(db.invoices, cmd.invoice_id)
    IN  IF invoice = None
        THEN [db |-> db, result |-> InvoiceNotFound(cmd.invoice_id)]
        ELSE [db |-> db,
              result |-> [type |-> "dict", value |-> [invoice EXCEPT !.void = TRUE]]]

\* a variant that flips the flag
CancelInvoiceCaseToggle(db, cmd) ==
    LET invoice == DictGet(db.invoices, cmd.invoice_id)
    IN  IF invoice = None
        THEN [db |-> db, result |-> InvoiceNotFound(cmd.invoice_id)]
        ELSE LET voided == [invoice EXCEPT !.void = ~@]
             IN  [db |-> [db EXCEPT !.invoices = DictSet(@, cmd.invoice_id, voided)],
                  result |-> [type |-> "dict", value |-> voided]]

CancelInvoiceCase(db, cmd) ==
    LET invoice == DictGet(db.invoices, cmd.invoice_id)
    IN  IF invoice = None
        THEN [db |-> db, result |-> InvoiceNotFound(cmd.invoice_id)]
        ELSE LET voided == [invoice EXCEPT !.void = TRUE]
             IN  [db |-> [db EXCEPT !.invoices = DictSet(@, cmd.invoice_id, voided)],
                  result |-> [type |-> "dict", value |-> voided]]

dispatch(db, cmd) ==
    CASE cmd.tool = "send_email" -> SendEmailCase(db, cmd)
      [] cmd.tool = "remember" -> CreateRuleCase(db, cmd)
      [] cmd.tool = "get_customer_data" -> GetCustomerDataCase(db, cmd)
      [] cmd.tool = "issue_invoice" -> IssueInvoiceCase(db, cmd)
      [] cmd.tool = "cancel_invoice" -> CancelInvoiceCase(db, cmd)
      [] OTHER -> [db |-> db, result |-> None]

\* src/schema_demo.py, dispatch: the IssueInvoice branch computes the
\* discount from the local name discount before that name is bound (line
\* 107), so once every sku was found the statement raises UnboundLocalError
\* and the store is not written
IssueInvoiceCaseRoot(db, cmd) ==
    LET missing == FirstMissing(db, cmd.skus)
    IN  IF missing # 0
        THEN [db |-> db, result |-> ProductNotFound(cmd.skus[missing])]
        ELSE [db |-> db, result |-> [type |-> "UnboundLocalError", name |-> "discount"]]

\* src/schema_demo.py, dispatch: the other branches are those of
\* src/vanilla_sgr/schema_demo.py statement for statement
dispatchRoot(db, cmd) ==
    CASE cmd.tool = "send_email" -> SendEmailCase(db, cmd)
      [] cmd.tool = "remember" -> CreateRuleCase(db, cmd)
      [] cmd.tool = "get_customer_data" -> GetCustomerDataCase(db, cmd)
      [] cmd.tool = "issue_invoice" -> IssueInvoiceCaseRoot(db, cmd)
      [] cmd.tool = "cancel_invoice" -> CancelInvoiceCase(db, cmd)
      [] OTHER -> [db |-> db, result |-> None]

\* the ids of the invoices dispatch has returned as issued, in order
IssuedAfter(cmd, res, ids) ==
    IF cmd.tool = "issue_invoice" /\ res.type = "dict"
    THEN Append(ids, res.value.id)
    ELSE ids

(***************************************************************************)
(* What the oracle may answer.  A completion's content is text that is     *)
(* JSON or not; JSON content carries the dict json.loads returns.          *)
(***************************************************************************)
Sama == "sama@openai.com"
SamaUpper == "Sama@openai.com"
Elon == "elon@x.com"
Emails == {Sama, SamaUpper}

SendEmailInputs ==
    {[tool |-> "send_email", subject |-> "Invoice", message |-> "See attached",
      files |-> <<"/invoicesINV-1.pdf">>, recipient_email |-> e] : e \in Emails}

CreateRuleInputs ==
    {[tool |-> "remember", email |-> e, rule |-> "5% discount"] : e \in {Sama}}

GetCustomerDataInputs ==
    {[tool |-> "get_customer_data", email |-> e] : e \in Emails \cup {Elon}}

Issue(e, s, d) ==
    [tool |-> "issue_invoice", email |-> e, skus |-> s, discount_percent |-> d]

IssueInvoiceInputs ==
    { Issue(Sama, <<"SKU-205", "SKU-210">>, 10),
      Issue(SamaUpper, <<"SKU-220", "SKU-220">>, 50),
      Issue(Sama, <<>>, 0),
      Issue(SamaUpper, <<"SKU-220">>, -5),
      Issue(Sama, <<"SKU-205", "SKU-404", "SKU-999">>, 10),
      Issue(SamaUpper, <<"SKU-999", "SKU-404">>, 50),
      Issue(Sama, <<"SKU-205">>, 51) }

CancelInvoiceInputs ==
    {[tool |-> "cancel_invoice", invoice_id |-> id, reason |-> "redo"] :
        id \in {"INV-1", "INV-2", "INV-9"}}

ReportInputs ==
    {[tool |-> "report_completion", completed_steps_laconic |-> <<"done">>,
      code |-> c] : c \in {"completed", "failed", "aborted"}}

\* a completion whose content is the JSON of a NextStep choosing f
Answer(f) ==
    [json |-> TRUE,
     value |-> [current_task |-> "task", plan_remaining_steps_brief |-> <<"next">>,
                task_completed |-> FALSE, function |-> f]]

\* json.loads and model_validate both accept the content
Decodes(content) == JsonLoads(content) /\ ValidNextStep(content.value)

\* the NextStep instance model_validate returns
Decode(content) ==
    [content.value EXCEPT !.function = DecodeFunction(content.value.function)]

(***************************************************************************)
(* Specification SpecDispatch: the store under any sequence of decoded     *)
(* commands.  Each action decodes one oracle answer (lines 238-240) and    *)
(* passes its function to dispatch (line 265); an answer that does not     *)
(* decode raises before dispatch is reached.                               *)
(***************************************************************************)
InitStore ==
    /\ DB = InitDB
    /\ job = None
    /\ result = None
    /\ issued = <<>>
    /\ response_content = None
    /\ rejected = FALSE
    /\ threads = <<>>

InitDispatch ==
    /\ InitStore
    /\ taskIdx = 0
    /\ i = 0
    /\ pc = "harness"
    /\ log = <<>>
    /\ runState = "NotStarted"
    /\ summary = None
    /\ calls = 0
    /\ dispatches = 0

Call(f) ==
    /\ response_content' = Answer(f)
    /\ IF Decodes(Answer(f))
       THEN LET decoded == Decode(Answer(f))
                cmd == decoded.function
                r == dispatch(DB, cmd)
            IN  /\ rejected' = FALSE
                /\ job' = decoded
                /\ DB' = r.db
                /\ result' = r.result
                /\ issued' = IssuedAfter(cmd, r.result, issued)
       ELSE /\ rejected' = TRUE
            /\ UNCHANGED <<DB, job, result, issued>>
    /\ UNCHANGED runnerVars
    /\ UNCHANGED threads

CallSendEmail ==
    /\ Len(DB.emails) < MaxEmails
    /\ \E f \in SendEmailInputs : Call(f)

CallCreateRule ==
    /\ Len(DB.rules) < MaxRules
    /\ \E f \in CreateRuleInputs : Call(f)

CallGetCustomerData == \E f \in GetCustomerDataInputs : Call(f)

CallIssueInvoice ==
    /\ Len(DB.invoices) < MaxInvoices
    /\ \E f \in IssueInvoiceInputs : Call(f)

CallCancelInvoice == \E f \in CancelInvoiceInputs : Call(f)

NextDispatch ==
    \/ CallSendEmail
    \/ CallCreateRule
    \/ CallGetCustomerData
    \/ CallIssueInvoice
    \/ CallCancelInvoice

SpecDispatch == InitDispatch /\ [][NextDispatch]_vars

(***************************************************************************)
(* Two callers of dispatch on the one global DB, each inside IssueInvoice.  *)
(* dispatch holds no lock, so a caller can be preempted between its         *)
(* statements: after pricing the skus (lines 112-119), after reading        *)
(* len(DB["invoices"]) and building the invoice (lines 121-132), and after  *)
(* the write to DB["invoices"] (lines 134-135).                             *)
(***************************************************************************)
Threads == {"run_a", "run_b"}

\* a caller outside dispatch: no locals
Idle ==
    [pc |-> "idle", cmd |-> None, total |-> 0, discount |-> 0,
     invoice |-> None, result |-> None]

\* the IssueInvoice commands that pass validation
ConcurrentInputs == {f \in IssueInvoiceInputs : ValidFunction(f)}

\* invoices stored or about to be stored
InFlight == Cardinality({t \in Threads : threads[t].pc # "idle"})

InitConcurrent ==
    /\ DB = InitDB
    /\ job = None
    /\ result = None
    /\ issued = <<>>
    /\ response_content = None
    /\ rejected = FALSE
    /\ threads = [t \in Threads |-> Idle]
    /\ taskIdx = 0
    /\ i = 0
    /\ pc = "threads"
    /\ log = <<>>
    /\ runState = "NotStarted"
    /\ summary = None
    /\ calls = 0
    /\ dispatches = 0

\* dispatch(cmd) is entered with an IssueInvoice
ThreadCall ==
    \E t \in Threads, f \in ConcurrentInputs :
        /\ threads[t].pc = "idle"
        /\ Len(issued) + InFlight < MaxInvoices
        /\ threads' = [threads EXCEPT ![t] = [Idle EXCEPT !.pc = "called", !.cmd = f]]
        /\ UNCHANGED <<DB, job, result, issued, response_content, rejected>>
        /\ UNCHANGED runnerVars

\* the loop over cmd.skus and the discount: return on an unknown sku
ThreadPrice ==
    \E t \in Threads :
        /\ threads[t].pc = "called"
        /\ LET cmd == threads[t].cmd
               missing == FirstMissing(DB, cmd.skus)
           IN  IF missing # 0
               THEN threads' = [threads EXCEPT ![t] =
                        [Idle EXCEPT !.result = ProductNotFound(cmd.skus[missing])]]
               ELSE threads' = [threads EXCEPT ![t] =
                        [@ EXCEPT !.pc = "priced",
                                  !.total = SumPrices(DB, cmd.skus),
                                  !.discount = Discount(SumPrices(DB, cmd.skus),
                                                        cmd.discount_percent)]]
        /\ UNCHANGED <<DB, job, result, issued, response_content, rejected>>
        /\ UNCHANGED runnerVars

\* invoice_id = f"INV-{len(DB['invoices']) + 1}" and the invoice dict
ThreadAllocate ==
    \E t \in Threads :
        /\ threads[t].pc = "priced"
        /\ LET cmd == threads[t].cmd
               invoice_id == InvoiceId(DB)
           IN  threads' = [threads EXCEPT ![t] =
                   [@ EXCEPT !.pc = "allocated",
                             !.invoice =
                                 [id |-> invoice_id,
                                  email |-> cmd.email,
                                  file |-> "/invoices" \o invoice_id \o ".pdf",
                                  skus |-> cmd.skus,
                                  discount_amount |-> threads[t].discount,
                                  discount_percent |-> cmd.discount_percent,
                                  total |-> threads[t].total,
                                  void |-> FALSE]]]
        /\ UNCHANGED <<DB, job, result, issued, response_content, rejected>>
        /\ UNCHANGED runnerVars

\* DB["invoices"][invoice_id] = invoice; return invoice
ThreadStore ==
    \E t \in Threads :
        /\ threads[t].pc = "allocated"
        /\ LET invoice == threads[t].invoice
           IN  /\ DB' = [DB EXCEPT !.invoices = DictSet(@, invoice.id, invoice)]
               /\ issued' = Append(issued, invoice.id)
               /\ threads' = [threads EXCEPT ![t] =
                       [Idle EXCEPT !.result = [type |-> "dict", value |-> invoice]]]
        /\ UNCHANGED <<job, result, response_content, rejected>>
        /\ UNCHANGED runnerVars

NextConcurrent ==
    \/ ThreadCall
    \/ ThreadPrice
    \/ ThreadAllocate
    \/ ThreadStore

SpecConcurrent == InitConcurrent /\ [][NextConcurrent]_vars

(***************************************************************************)
(* Specification Spec: execute_tasks.                                      *)
(***************************************************************************)
SYSTEM_PROMPT == "You're a business assistant helping Anton with customer interactions."

\* the first three of the five tasks; the texts play no part in the loop
TEST_TASKS ==
    << "Rule: address sama@openai.com as 'The SAMA', always give him 5% discount",
       "Rule for elon@x.com. Email his invoices to finances@x.com",
       "sama@openai.com wants one of each product. Email him the invoice" >>

\* log = [{"role": "system", ...}, {"role": "user", "content": task}]
SeedLog(task) ==
    << [role |-> "system", content |-> SYSTEM_PROMPT],
       [role |-> "user", content |-> task] >>

\* step = f"step_{i+1}"
StepId(n) == "step_" \o ToString(n + 1)

\* job.function.model_dump_json() and json.dumps(result): the serialized value
JsonDumps(v) == [type |-> "json", of |-> v]

\* the entry appended before dispatch
AssistantEntry(step, function) ==
    [role |-> "assistant",
     tool_calls |-> << [type |-> "function", id |-> step,
                        function |-> [name |-> function.tool,
                                      arguments |-> JsonDumps(function)]] >>]

\* txt = result if isinstance(result, str) else json.dumps(result)
ResultText(res) == IF res.type = "str" THEN res ELSE JsonDumps(res)

\* the entry appended after dispatch
ToolEntry(step, res) ==
    [role |-> "tool", content |-> ResultText(res), tool_call_id |-> step]

InitRunner ==
    /\ InitStore
    /\ taskIdx = 0
    /\ i = 0
    /\ pc = "task"
    /\ log = <<>>
    /\ runState = "NotStarted"
    /\ summary = None
    /\ calls = 0
    /\ dispatches = 0

\* a variant that keeps one conversation log for the whole batch
StartTaskSharedLog ==
    /\ pc = "task"
    /\ taskIdx < Len(TEST_TASKS)
    /\ taskIdx' = taskIdx + 1
    /\ log' = log \o SeedLog(TEST_TASKS[taskIdx + 1])
    /\ i' = 0
    /\ runState' = "Running"
    /\ summary' = None
    /\ calls' = 0
    /\ dispatches' = 0
    /\ pc' = "call"
    /\ UNCHANGED <<DB, job, result, issued, response_content, rejected>>
    /\ UNCHANGED threads

\* for task in TEST_TASKS: the next task starts a run with a fresh log
StartTask ==
    /\ pc = "task"
    /\ taskIdx < Len(TEST_TASKS)
    /\ taskIdx' = taskIdx + 1
    /\ log' = SeedLog(TEST_TASKS[taskIdx + 1])
    /\ i' = 0
    /\ runState' = "Running"
    /\ summary' = None
    /\ calls' = 0
    /\ dispatches' = 0
    /\ pc' = "call"
    /\ UNCHANGED <<DB, job, result, issued, response_content, rejected>>
    /\ UNCHANGED threads

\* TEST_TASKS is exhausted: execute_tasks returns
Return ==
    /\ pc = "task"
    /\ taskIdx = Len(TEST_TASKS)
    /\ pc' = "done"
    /\ UNCHANGED <<DB, taskIdx, i, log, job, result, runState, summary, calls,
                   dispatches, issued, response_content, rejected>>
    /\ UNCHANGED threads

\* a variant whose range has one value more
InRangeInclusive(n) == n <= MaxSteps

\* i in range(20)
InRange(n) == n < MaxSteps

\* a variant that stops the run on a "completed" report only
IsTerminalCompletedOnly(function) ==
    function.tool = "report_completion" /\ function.code = "completed"

\* isinstance(job.function, ReportTaskCompletion)
IsTerminal(function) == function.tool = "report_completion"

\* a variant that also ends the run when the answer says task_completed
DecideTrustingFlag(content) ==
    /\ pc = "call"
    /\ InRange(i)
    /\ calls' = calls + 1
    /\ response_content' = content
    /\ IF ~Decodes(content)
       THEN /\ rejected' = TRUE
            /\ runState' = "Raised"
            /\ pc' = "raised"
            /\ UNCHANGED <<job, summary>>
       ELSE /\ rejected' = FALSE
            /\ job' = Decode(content)
            /\ IF IsTerminal(job'.function) \/ job'.task_completed
               THEN /\ summary' = IF IsTerminal(job'.function)
                                  THEN [code |-> job'.function.code,
                                        steps |-> job'.function.completed_steps_laconic]
                                  ELSE None
                    /\ runState' = "Completed"
                    /\ pc' = "task"
               ELSE /\ pc' = "log_action"
                    /\ UNCHANGED <<runState, summary>>
    /\ UNCHANGED <<DB, taskIdx, i, log, result, dispatches, issued>>
    /\ UNCHANGED threads

\* a variant that swallows a decoding error and asks the oracle again
DecideRetrying(content) ==
    /\ pc = "call"
    /\ InRange(i)
    /\ calls' = calls + 1
    /\ response_content' = content
    /\ IF ~Decodes(content)
       THEN /\ rejected' = TRUE
            /\ pc' = "call"
            /\ UNCHANGED <<job, summary, runState>>
       ELSE /\ rejected' = FALSE
            /\ job' = Decode(content)
            /\ IF IsTerminal(job'.function)
               THEN /\ summary' = [code |-> job'.function.code,
                                   steps |-> job'.function.completed_steps_laconic]
                    /\ runState' = "Completed"
                    /\ pc' = "task"
               ELSE /\ pc' = "log_action"
                    /\ UNCHANGED <<runState, summary>>
    /\ UNCHANGED <<DB, taskIdx, i, log, result, dispatches, issued>>
    /\ UNCHANGED threads

\* lines 230-250: one chat_completion call, its decoding, and the branch on
\* the decoded function
Decide(content) ==
    /\ pc = "call"
    /\ InRange(i)
    /\ calls' = calls + 1
    /\ response_content' = content
    /\ IF ~Decodes(content)
       THEN \* json.loads or model_validate raises out of execute_tasks
            /\ rejected' = TRUE
            /\ runState' = "Raised"
            /\ pc' = "raised"
            /\ UNCHANGED <<job, summary>>
       ELSE /\ rejected' = FALSE
            /\ job' = Decode(content)
            /\ IF IsTerminal(job'.function)
               THEN /\ summary' = [code |-> job'.function.code,
                                   steps |-> job'.function.completed_steps_laconic]
                    /\ runState' = "Completed"
                    /\ pc' = "task"
               ELSE /\ pc' = "log_action"
                    /\ UNCHANGED <<runState, summary>>
    /\ UNCHANGED <<DB, taskIdx, i, log, result, dispatches, issued>>
    /\ UNCHANGED threads

\* a variant that goes on to dispatch without the append
LogActionSkipped ==
    /\ pc = "log_action"
    /\ pc' = "dispatch"
    /\ UNCHANGED <<DB, taskIdx, i, log, job, result, runState, summary, calls,
                   dispatches, issued, response_content, rejected>>
    /\ UNCHANGED threads

\* lines 252-263
LogAction ==
    /\ pc = "log_action"
    /\ log' = Append(log, AssistantEntry(StepId(i), job.function))
    /\ pc' = "dispatch"
    /\ UNCHANGED <<DB, taskIdx, i, job, result, runState, summary, calls,
                   dispatches, issued, response_content, rejected>>
    /\ UNCHANGED threads

\* line 265
Dispatch ==
    /\ pc = "dispatch"
    /\ LET r == dispatch(DB, job.function)
       IN  /\ DB' = r.db
           /\ result' = r.result
           /\ issued' = IssuedAfter(job.function, r.result, issued)
    /\ dispatches' = dispatches + 1
    /\ pc' = "log_result"
    /\ UNCHANGED <<taskIdx, i, log, job, runState, summary, calls,
                   response_content, rejected>>
    /\ UNCHANGED threads

\* lines 266-268, and the loop variable moving on
LogResult ==
    /\ pc = "log_result"
    /\ log' = Append(log, ToolEntry(StepId(i), result))
    /\ i' = i + 1
    /\ pc' = "call"
    /\ UNCHANGED <<DB, taskIdx, job, result, runState, summary, calls,
                   dispatches, issued, response_content, rejected>>
    /\ UNCHANGED threads

\* range(20) is exhausted without a break
Exhaust ==
    /\ pc = "call"
    /\ ~InRange(i)
    /\ runState' = "Exhausted"
    /\ pc' = "task"
    /\ UNCHANGED <<DB, taskIdx, i, log, job, result, summary, calls,
                   dispatches, issued, response_content, rejected>>
    /\ UNCHANGED threads

(***************************************************************************)
(* The oracle of Spec.  During the first FreeSteps steps of a run it may   *)
(* choose any function of FreeFunctions; afterwards it keeps asking the    *)
(* same query.  At every step it may report, or answer something that      *)
(* does not decode.                                                        *)
(***************************************************************************)
FreeFunctions ==
    { [tool |-> "remember", email |-> Sama, rule |-> "5% discount"],
      [tool |-> "send_email", subject |-> "Invoice", message |-> "See attached",
       files |-> <<"/invoicesINV-1.pdf">>, recipient_email |-> Sama],
      [tool |-> "get_customer_data", email |-> Sama],
      Issue(Sama, <<"SKU-205", "SKU-210">>, 10),
      Issue(Sama, <<"SKU-205", "SKU-404", "SKU-999">>, 10),
      [tool |-> "cancel_invoice", invoice_id |-> "INV-1", reason |-> "redo"],
      [tool |-> "cancel_invoice", invoice_id |-> "INV-9", reason |-> "redo"] }

FillerFunction == [tool |-> "get_customer_data", email |-> Elon]

\* content that is not JSON: json.loads raises
NotJson == [json |-> FALSE, value |-> None]

Undecodable ==
    { NotJson,
      Answer(Issue(Sama, <<"SKU-205">>, 51)),
      Answer([tool |-> "report_completion", completed_steps_laconic |-> <<"done">>,
              code |-> "aborted"]),
      [json |-> TRUE,
       value |-> [current_task |-> "task", plan_remaining_steps_brief |-> <<>>,
                  task_completed |-> FALSE, function |-> FillerFunction]] }

\* the same choice of function under other advisory fields: another task
\* restatement, a full plan whose later entries name other actions, and the
\* completion flag set
AnswerAdvising(f) ==
    [json |-> TRUE,
     value |-> [current_task |-> "another reading of the task",
                plan_remaining_steps_brief |->
                    <<"first", "cancel INV-1", "issue an invoice", "send email",
                      "report completion">>,
                task_completed |-> TRUE, function |-> f]]

\* the store has room for what f would add
WithinCaps(f) ==
    /\ f.tool = "issue_invoice" => Len(DB.invoices) < MaxInvoices
    /\ f.tool = "remember" => Len(DB.rules) < MaxRules
    /\ f.tool = "send_email" => Len(DB.emails) < MaxEmails

OracleStep ==
    \/ \E f \in FreeFunctions : i < FreeSteps /\ WithinCaps(f) /\ Decide(Answer(f))
    \/ \E f \in FreeFunctions :
          i < FreeSteps /\ WithinCaps(f) /\ Decide(AnswerAdvising(f))
    \/ i >= FreeSteps /\ Decide(Answer(FillerFunction))
    \/ \E f \in ReportInputs : ValidFunction(f) /\ Decide(Answer(f))
    \/ \E f \in ReportInputs : ValidFunction(f) /\ Decide(AnswerAdvising(f))
    \/ \E content \in Undecodable : Decide(content)

Next ==
    \/ StartTask
    \/ OracleStep
    \/ LogAction
    \/ Dispatch
    \/ LogResult
    \/ Exhaust
    \/ Return

Spec == InitRunner /\ [][Next]_vars

(***************************************************************************)
(* Properties.                                                             *)
(***************************************************************************)
StoredInvoice(n) == DB.invoices[n][2]

\* the last answer decoded and its function was dispatched
Dispatched == ~rejected /\ job # None

\* C1: the k-th invoice issued has id "INV-k", every issued invoice is still
\* stored under its own id, in issue order, and no id is used twice, whether
\* or not earlier invoices have been cancelled.
C1_InvoiceIdsSequential ==
    /\ \A k \in 1..Len(issued) : issued[k] = "INV-" \o ToString(k)
    /\ Len(DB.invoices) = Len(issued)
    /\ \A k \in 1..Len(DB.invoices) :
          /\ DB.invoices[k][1] = issued[k]
          /\ StoredInvoice(k).id = issued[k]
    /\ \A m, n \in 1..Len(DB.invoices) :
          m # n => DB.invoices[m][1] # DB.invoices[n][1]

\* an invoice is issued as INV-2 after INV-1 has been cancelled
C1_Witness ==
    /\ Dispatched
    /\ job.function.tool = "issue_invoice"
    /\ result.type = "dict"
    /\ result.value.id = "INV-2"
    /\ Len(DB.invoices) = 2
    /\ StoredInvoice(1).void

\* C2: a run makes at most MaxSteps oracle calls and at most MaxSteps
\* dispatches; a run that ends after MaxSteps dispatched decisions, none of
\* them a report, ends exhausted and not completed, and a completed run has
\* dispatched fewer than MaxSteps actions.
C2_StepBudget ==
    /\ calls <= MaxSteps
    /\ dispatches <= MaxSteps
    /\ dispatches <= calls
    /\ (pc \in {"task", "done"} /\ dispatches = MaxSteps) =>
          (runState = "Exhausted" /\ summary = None)
    /\ runState = "Exhausted" => (calls = MaxSteps /\ dispatches = MaxSteps)
    /\ runState = "Completed" => (calls <= MaxSteps /\ dispatches = calls - 1)

\* a run has used its whole budget without a report
C2_Witness ==
    /\ runState = "Exhausted"
    /\ pc = "task"
    /\ calls = MaxSteps
    /\ Len(log) = 2 + 2 * MaxSteps

C3_State ==
    /\ pc \in {"log_action", "dispatch", "log_result"} =>
          job.function.tool # "report_completion"
    /\ \A n \in 1..Len(log) :
          log[n].role = "assistant" =>
              log[n].tool_calls[1].function.name # "report_completion"
    /\ (runState = "Completed" /\ calls = 1) =>
          (dispatches = 0 /\ log = SeedLog(TEST_TASKS[taskIdx]))

C3_Step ==
    /\ (pc = "call" /\ calls' = calls + 1 /\ ~rejected'
          /\ job'.function.tool = "report_completion") =>
          /\ runState' = "Completed"
          /\ summary' = [code |-> job'.function.code,
                         steps |-> job'.function.completed_steps_laconic]
          /\ pc' = "task"
          /\ DB' = DB
          /\ log' = log
          /\ dispatches' = dispatches
          /\ result' = result
    /\ (pc = "task" /\ pc' = "call") => DB' = DB

\* C3: a step that decodes a ReportTaskCompletion ends the run as Completed
\* with the report's code and steps, without dispatching or logging anything
\* and without touching the store; a report is never dispatched or logged, and
\* a run completed at its first step has the seed log and no dispatch.
C3_ReportStopsRun == []C3_State /\ [][C3_Step]_vars

\* a run completed at its first step, over a store earlier runs have filled
C3_Witness ==
    /\ runState = "Completed"
    /\ calls = 1
    /\ summary.code = "completed"
    /\ Len(DB.invoices) > 0

C4_LogShape ==
    pc \in {"call", "log_action", "dispatch", "log_result"} =>
        /\ runState = "Running"
        /\ \A k \in 1..i :
              /\ log[2 * k + 1].role = "assistant"
              /\ log[2 * k + 1].tool_calls[1].id = "step_" \o ToString(k)
              /\ log[2 * k + 2].role = "tool"
              /\ log[2 * k + 2].tool_call_id = "step_" \o ToString(k)
        /\ pc \in {"call", "log_action"} =>
              (Len(log) = 2 + 2 * i /\ dispatches = i)
        /\ pc = "dispatch" =>
              /\ Len(log) = 3 + 2 * i
              /\ dispatches = i
              /\ log[Len(log)].role = "assistant"
              /\ log[Len(log)].tool_calls[1].id = "step_" \o ToString(i + 1)
              /\ log[Len(log)].tool_calls[1].function.name = job.function.tool
        /\ pc = "log_result" => (Len(log) = 3 + 2 * i /\ dispatches = i + 1)

C4_Step ==
    /\ pc = "log_result" =>
          /\ log' = Append(log,
                [role |-> "tool",
                 content |-> IF result.type = "str" THEN result
                             ELSE [type |-> "json", of |-> result],
                 tool_call_id |-> "step_" \o ToString(i + 1)])
          /\ runState' = "Running"
          /\ pc' = "call"
    /\ pc # "task" =>
          /\ Len(log') >= Len(log)
          /\ \A n \in 1..Len(log) : log'[n] = log[n]

\* C4: a step with a non-terminal decision appends the assistant entry, then
\* dispatches once, then appends the result entry with the same step id, and
\* the run stays Running; a failure string is logged as it was returned; no
\* entry of the run's log is changed or removed.
C4_StepLogsTwice == []C4_LogShape /\ [][C4_Step]_vars

\* a run still running after a step that logged a failure and one that did not
C4_Witness ==
    /\ pc = "call"
    /\ runState = "Running"
    /\ i = 2
    /\ log[4].content.type = "str"
    /\ log[6].content.type = "json"

\* the command a step dispatches: the step decoded an answer
DispatchesTool(t) == ~rejected' /\ job' # None /\ job'.function.tool = t

Catalog == {"SKU-205", "SKU-210", "SKU-220"}

C5_Step ==
    (/\ DispatchesTool("issue_invoice")
     /\ \E n \in 1..Len(job'.function.skus) : job'.function.skus[n] \notin Catalog) =>
        /\ \E n \in 1..Len(job'.function.skus) :
              /\ job'.function.skus[n] \notin Catalog
              /\ \A m \in 1..(n - 1) : job'.function.skus[m] \in Catalog
              /\ result' = [type |-> "str",
                            text |-> "Product " \o job'.function.skus[n] \o " not found"]
        /\ DB' = DB
        /\ issued' = issued

\* C5: dispatching an IssueInvoice with a sku the catalog lacks returns
\* "Product <sku> not found" for the first such sku of the list and leaves the
\* store, and so the invoice count, as it was.
C5_UnknownSkuNotFound == [][C5_Step]_vars

\* an IssueInvoice failed on the second of three skus, over a store with an invoice
C5_Witness ==
    /\ Dispatched
    /\ job.function.tool = "issue_invoice"
    /\ job.function.skus = <<"SKU-205", "SKU-404", "SKU-999">>
    /\ result = [type |-> "str", text |-> "Product SKU-404 not found"]
    /\ Len(DB.invoices) = 1

C6_Step ==
    DispatchesTool("cancel_invoice") =>
        LET id == job'.function.invoice_id
        IN  IF \E n \in 1..Len(DB.invoices) : DB.invoices[n][1] = id
            THEN \E n \in 1..Len(DB.invoices) :
                    /\ DB.invoices[n][1] = id
                    /\ DB'.invoices[n][1] = id
                    /\ DB'.invoices[n][2].void = TRUE
                    /\ result' = [type |-> "dict", value |-> DB'.invoices[n][2]]
            ELSE /\ result' = [type |-> "str",
                               text |-> "Invoice " \o id \o " not found"]
                 /\ DB' = DB

\* C6: CancelInvoice with the id of a stored invoice sets its void flag and
\* returns the invoice as stored afterwards; with any other id it returns
\* "Invoice <id> not found" and leaves the store as it was.
C6_CancelInvoice == [][C6_Step]_vars

\* the first of two invoices has been cancelled, the second has not
C6_Witness ==
    /\ Dispatched
    /\ job.function.tool = "cancel_invoice"
    /\ job.function.invoice_id = "INV-1"
    /\ result.type = "dict"
    /\ Len(DB.invoices) = 2
    /\ StoredInvoice(1).void
    /\ ~StoredInvoice(2).void

C7_Step ==
    /\ Len(DB'.invoices) >= Len(DB.invoices)
    /\ \A n \in 1..Len(DB.invoices) :
          LET old == DB.invoices[n][2]
              new == DB'.invoices[n][2]
          IN  /\ DB'.invoices[n][1] = DB.invoices[n][1]
              /\ new.id = old.id
              /\ new.email = old.email
              /\ new.skus = old.skus
              /\ new.discount_percent = old.discount_percent
              /\ new.discount_amount = old.discount_amount
              /\ new.total = old.total
              /\ old.void => new.void

\* C7: no step changes the id, email, skus, discount_percent, discount_amount
\* or total of a stored invoice, and no step clears a void flag.
C7_InvoicesImmutable == [][C7_Step]_vars

\* both stored invoices are void after a CancelInvoice
C7_Witness ==
    /\ Dispatched
    /\ job.function.tool = "cancel_invoice"
    /\ result.type = "dict"
    /\ Len(DB.invoices) = 2
    /\ StoredInvoice(1).void
    /\ StoredInvoice(2).void

\* C8: every stored invoice has discount_percent in 0..50, and no IssueInvoice
\* with a discount_percent outside 0..50 is decoded and dispatched.
C8_DiscountInRange ==
    /\ \A n \in 1..Len(DB.invoices) : StoredInvoice(n).discount_percent \in 0..50
    /\ (Dispatched /\ job.function.tool = "issue_invoice") =>
          job.function.discount_percent \in 0..50

\* the sum of the catalog prices of a list of skus, each occurrence counted
RECURSIVE ListPriceSum(_)
ListPriceSum(skus) ==
    IF skus = <<>> THEN 0
    ELSE (CASE Head(skus) = "SKU-205" -> 258
            [] Head(skus) = "SKU-210" -> 1290
            [] Head(skus) = "SKU-220" -> 315) + ListPriceSum(Tail(skus))

\* C9: every stored invoice has total equal to the sum of the list prices of
\* its skus, repeated skus counted each time and no discount taken off, and
\* discount_amount (in hundredths) within half a hundredth of
\* total * discount_percent / 100; [SKU-205, SKU-210] at 10 percent gives
\* total 1548 and discount_amount 154.80.
C9_TotalAndDiscount ==
    \A n \in 1..Len(DB.invoices) :
        LET inv == StoredInvoice(n)
            exact == inv.total * inv.discount_percent
            diff == inv.discount_amount - exact
        IN  /\ inv.total = ListPriceSum(inv.skus)
            /\ 2 * diff <= 1
            /\ 2 * diff >= -1
            /\ (inv.skus = <<"SKU-205", "SKU-210">> /\ inv.discount_percent = 10) =>
                  (inv.total = 1548 /\ inv.discount_amount = 15480)

\* the store holds the example invoice and one with a repeated sku
C9_Witness ==
    /\ Len(DB.invoices) = 2
    /\ StoredInvoice(1).skus = <<"SKU-220", "SKU-220">>
    /\ StoredInvoice(1).total = 630
    /\ StoredInvoice(2).skus = <<"SKU-205", "SKU-210">>
    /\ StoredInvoice(2).discount_amount = 15480

\* out lists, in order, exactly the entries of src whose index is in idx
ExactlyAt(out, src, idx) ==
    /\ Len(out) = Cardinality(idx)
    /\ \A n \in idx : out[Cardinality({m \in idx : m <= n})] = src[n]

C10_Step ==
    DispatchesTool("get_customer_data") =>
        LET E == job'.function.email
            v == result'.value
        IN  /\ result'.type = "dict"
            /\ ExactlyAt(v.rules, DB.rules,
                  {n \in 1..Len(DB.rules) : DB.rules[n].email = E})
            /\ ExactlyAt(v.invoices, DB.invoices,
                  {n \in 1..Len(DB.invoices) : DB.invoices[n][2].email = E})
            /\ ExactlyAt(v.emails, DB.emails,
                  {n \in 1..Len(DB.emails) : DB.emails[n].to = E})
            /\ DB' = DB

\* C10: GetCustomerData(email = E) returns, in stored order, exactly the rules,
\* the invoices and the emails whose address is the string E, and leaves the
\* store as it was.
C10_GetCustomerDataExact == [][C10_Step]_vars

\* a query answered with some of the stored entries and not the others
C10_Witness ==
    /\ Dispatched
    /\ job.function.tool = "get_customer_data"
    /\ job.function.email = Sama
    /\ Len(DB.invoices) = 2
    /\ Len(result.value.invoices) = 1
    /\ Len(result.value.rules) = 1
    /\ Len(DB.emails) = 1
    /\ Len(result.value.emails) = 0


\* an oracle call has just been made
OracleCalled == pc = "call" /\ calls' = calls + 1

C11_Step ==
    /\ (OracleCalled /\ rejected') =>
          /\ runState' = "Raised"
          /\ pc' = "raised"
          /\ dispatches' = dispatches
          /\ log' = log
          /\ DB' = DB
          /\ job' = job
          /\ result' = result
    /\ pc = "raised" => (calls' = calls /\ dispatches' = dispatches /\ log' = log
                          /\ DB' = DB /\ pc' = "raised")

\* C11: an oracle output that does not decode ends the run at that step: the
\* step dispatches nothing, appends nothing to the log, leaves the store and
\* the last decoded action as they were, and no oracle call, dispatch or log
\* append follows it.
C11_DecodeErrorEndsRun == [][C11_Step]_vars

\* a run ended by an undecodable answer at its third step, two steps logged
C11_Witness ==
    /\ pc = "raised"
    /\ runState = "Raised"
    /\ rejected
    /\ response_content = NotJson
    /\ calls = 3
    /\ dispatches = 2
    /\ Len(log) = 6

C12_Step ==
    (/\ OracleCalled
     /\ JsonLoads(response_content')
     /\ response_content'.value.function.tool = "issue_invoice"
     /\ response_content'.value.function.discount_percent > 50) =>
        /\ dispatches' = dispatches
        /\ DB' = DB
        /\ runState' = "Running"
        /\ pc' # "raised"
        /\ Len(log') > Len(log)
        /\ log'[Len(log')].role = "tool"

\* C12: an IssueInvoice answer with discount_percent above 50 is not
\* dispatched: the step appends the rejection to the log as its result and
\* the run stays Running, with the oracle still to be asked again.
C12_ValidationErrorRecoverable == [][C12_Step]_vars


\* C13: every stored invoice has at least one sku, and no IssueInvoice with
\* an empty skus list is decoded and dispatched.
C13_SkusNonEmpty ==
    /\ \A n \in 1..Len(DB.invoices) :
          /\ Len(StoredInvoice(n).skus) > 0
          /\ ~(StoredInvoice(n).skus = <<>> /\ StoredInvoice(n).total = 0)
    /\ (Dispatched /\ job.function.tool = "issue_invoice") =>
          job.function.skus # <<>>


\* s is a prefix of t
IsPrefix(s, t) == Len(s) <= Len(t) /\ \A n \in 1..Len(s) : t[n] = s[n]

C14_Step ==
    /\ IsPrefix(DB.rules, DB'.rules)
    /\ IsPrefix(DB.emails, DB'.emails)
    /\ {DB.invoices[n][1] : n \in 1..Len(DB.invoices)} \subseteq
          {DB'.invoices[n][1] : n \in 1..Len(DB'.invoices)}
    /\ Len(DB'.invoices) >= Len(DB.invoices)

C14_CatalogFixed ==
    /\ DOMAIN DB.products = {"SKU-205", "SKU-210", "SKU-220"}
    /\ DB.products["SKU-205"] = [name |-> "AGI course 101 Personal", price |-> 258]
    /\ DB.products["SKU-210"] = [name |-> "AGI 101 Course Team", price |-> 1290]
    /\ DB.products["SKU-220"] =
          [name |-> "Building AGI - Online Excercises", price |-> 315]

C15_Step ==
    /\ (OracleCalled /\ ~rejected') =>
          LET f == response_content'.value.function
          IN  /\ job'.function = [k \in Fields(f.tool) |-> f[k]]
              /\ DB' = DB
              /\ log' = log
              /\ result' = result
              /\ i' = i
              /\ taskIdx' = taskIdx
              /\ dispatches' = dispatches
              /\ IF f.tool = "report_completion"
                 THEN /\ pc' = "task"
                      /\ runState' = "Completed"
                      /\ summary' = [code |-> f.code,
                                     steps |-> f.completed_steps_laconic]
                 ELSE /\ pc' = "log_action"
                      /\ runState' = "Running"
                      /\ summary' = summary
    /\ pc = "log_action" =>
          /\ log' = Append(log,
                [role |-> "assistant",
                 tool_calls |-> << [type |-> "function",
                                    id |-> "step_" \o ToString(i + 1),
                                    function |->
                                        [name |-> job.function.tool,
                                         arguments |-> [type |-> "json",
                                                        of |-> job.function]]] >>])
          /\ pc' = "dispatch"
          /\ UNCHANGED <<DB, result, i, taskIdx, dispatches, runState, summary,
                         calls, job>>
    /\ pc = "dispatch" =>
          /\ DB' = dispatch(DB, job.function).db
          /\ result' = dispatch(DB, job.function).result
          /\ dispatches' = dispatches + 1
          /\ pc' = "log_result"
          /\ UNCHANGED <<log, i, taskIdx, runState, summary, calls, job>>
    /\ pc = "log_result" =>
          /\ Len(log') = Len(log) + 1
          /\ log'[Len(log')].content.type \in {"str", "json"}
          /\ pc' = "call"
          /\ i' = i + 1
          /\ UNCHANGED <<DB, result, taskIdx, dispatches, runState, summary,
                         calls, job>>

\* C15: what a step does is fixed by the function of the decoded answer
\* alone, whatever current_task, plan_remaining_steps_brief and task_completed
\* are: a report ends the run, any other function is logged and dispatched
\* once, also when task_completed is true, and nothing but that function is
\* ever logged or dispatched.
C15_OnlyFunctionActedOn == [][C15_Step]_vars

\* an action was dispatched although its answer said task_completed and
\* carried a five-entry plan naming other actions
C15_Witness ==
    /\ pc = "log_result"
    /\ job.task_completed
    /\ Len(job.plan_remaining_steps_brief) = 5
    /\ job.function.tool = "remember"
    /\ dispatches = 1
    /\ Len(DB.rules) = 1
    /\ Len(DB.invoices) = 0


\* a run begins: the batch moves to the next task of the list
C16_Step ==
    taskIdx' # taskIdx =>
        /\ taskIdx' = taskIdx + 1
        /\ pc = "task"
        /\ runState \in {"NotStarted", "Completed", "Exhausted"}
        /\ (taskIdx = 0) = (runState = "NotStarted")
        /\ runState' = "Running"
        /\ log' = << [role |-> "system", content |-> SYSTEM_PROMPT],
                     [role |-> "user", content |-> TEST_TASKS[taskIdx']] >>

\* the log of the current run: its own two seed entries, then only what its
\* own steps appended
C16_OwnLog ==
    taskIdx > 0 =>
        /\ Len(log) = 2 + 2 * dispatches
                        + (IF pc = "dispatch" THEN 1
                           ELSE IF pc = "log_result" THEN -1 ELSE 0)
        /\ log[1] = [role |-> "system", content |-> SYSTEM_PROMPT]
        /\ log[2] = [role |-> "user", content |-> TEST_TASKS[taskIdx]]
        /\ \A n \in 3..Len(log) : log[n].role \in {"assistant", "tool"}
        /\ runState # "NotStarted"

\* C16: the batch runs the tasks one at a time in list order, a run starting
\* only when the previous one has completed or exhausted its budget; every
\* run starts with the log [system preamble, task text], and its log never
\* holds an entry of another run.
C16_RunsSequentialFreshLog == []C16_OwnLog /\ [][C16_Step]_vars

\* the third run starts on a fresh log after two runs that each stored an
\* invoice
C16_Witness ==
    /\ taskIdx = 3
    /\ pc = "call"
    /\ calls = 0
    /\ Len(log) = 2
    /\ log[2].content = TEST_TASKS[3]
    /\ Len(issued) = 2
    /\ runState = "Running"


\* C17: when two callers interleave inside IssueInvoice, the invoices they
\* are handed carry different ids and every one of them is in the store.
C17_AllocationAtomic ==
    pc = "threads" =>
        /\ \A a, b \in 1..Len(issued) : a # b => issued[a] # issued[b]
        /\ Len(DB.invoices) = Len(issued)
        /\ \A t \in Threads :
              threads[t].result.type = "dict" =>
                  DictGet(DB.invoices, threads[t].result.value.id)
                      = threads[t].result.value


C18_Step ==
    /\ DB'.products = DB.products
    /\ DispatchesTool("send_email") =>
          /\ Len(DB'.emails) = Len(DB.emails) + 1
          /\ SubSeq(DB'.emails, 1, Len(DB.emails)) = DB.emails
          /\ DB'.rules = DB.rules
          /\ DB'.invoices = DB.invoices
    /\ DispatchesTool("remember") =>
          /\ Len(DB'.rules) = Len(DB.rules) + 1
          /\ SubSeq(DB'.rules, 1, Len(DB.rules)) = DB.rules
          /\ DB'.invoices = DB.invoices
          /\ DB'.emails = DB.emails
    /\ (DispatchesTool("issue_invoice") /\ result'.type = "dict") =>
          /\ Len(DB'.invoices) = Len(DB.invoices) + 1
          /\ SubSeq(DB'.invoices, 1, Len(DB.invoices)) = DB.invoices
          /\ DB'.rules = DB.rules
          /\ DB'.emails = DB.emails
    /\ (DispatchesTool("cancel_invoice") /\ result'.type = "dict") =>
          /\ DB'.rules = DB.rules
          /\ DB'.emails = DB.emails
          /\ Len(DB'.invoices) = Len(DB.invoices)
          /\ \A n \in 1..Len(DB.invoices) :
                /\ DB'.invoices[n][1] = DB.invoices[n][1]
                /\ IF DB.invoices[n][1] = job'.function.invoice_id
                   THEN DB'.invoices[n][2] =
                            [DB.invoices[n][2] EXCEPT !.void = DB'.invoices[n][2].void]
                   ELSE DB'.invoices[n][2] = DB.invoices[n][2]
    /\ DispatchesTool("get_customer_data") => DB' = DB

\* C18: a dispatch touches only what its action is about: SendEmail adds one
\* email and leaves rules and invoices; CreateRule adds one rule and leaves
\* invoices and emails; a successful IssueInvoice adds one invoice and leaves
\* rules, emails and the invoices already stored; a successful CancelInvoice
\* changes nothing but the void flag of the invoice it names;
\* GetCustomerData changes nothing.
C18_OneEffectPerDispatch == [][C18_Step]_vars

\* an invoice was issued into a store that already held a rule, an email and
\* a cancelled invoice
C18_Witness ==
    /\ Dispatched
    /\ job.function.tool = "issue_invoice"
    /\ result.type = "dict"
    /\ result.value.id = "INV-2"
    /\ Len(DB.rules) = 1
    /\ Len(DB.emails) = 1
    /\ Len(DB.invoices) = 2
    /\ StoredInvoice(1).void


C19_Step ==
    (~rejected' /\ job' # None) =>
        dispatchRoot(DB, job'.function) = [db |-> DB', result |-> result']

\* C19: from the same store and for the same action, dispatch of
\* src/schema_demo.py returns what dispatch of src/vanilla_sgr/schema_demo.py
\* returns and leaves the store as it leaves it, an IssueInvoice whose skus
\* are all in the catalog included.
C19_DispatchesEquivalent == [][C19_Step]_vars

====
